---- MODULE Spec2Model ----
(***************************************************************************)
(* A model of sieve.c: the command line parser (ParseArguments,           *)
(* StringToUMax), main's allocation of the table, the sieve loop under    *)
(* both builds (default: "omp parallel for" on the outer loop; SIEVE_FAST: *)
(* "omp parallel for" on the marking loop) and PrintPrimes.                *)
(*                                                                         *)
(* sieve_num is an unsigned integer of Width bits.  The program has        *)
(* Width = 32 and a float of 24 significand bits; the model keeps the      *)
(* same arithmetic (wrap-around mod 2^Width, IEEE round-to-nearest-even)   *)
(* at a width of 2*HalfWidth bits and a significand of 3/4 of that.        *)
(***************************************************************************)
EXTENDS Integers, Sequences, FiniteSets, TLC

\* ---------------------------------------------------------------- bounds
\* Half of the bit width of sieve_num (the program: 16).
HalfWidth == 3
\* The largest team of OpenMP threads considered.
MaxThreads == 3
\* The most option units (a flag, or a flag and its value) on a command line.
MaxOpts == 2

\* ------------------------------------------------------- integer types
Width == 2 * HalfWidth
Pow2(n) == 2 ^ n
\* MAX_SIEVE (= MAX_U32 in the default build): the largest sieve_num.
MAX_SIEVE == Pow2(Width) - 1
MAX_U32 == Pow2(Width) - 1
\* UINTMAX_MAX: uintmax_t is twice as wide as u32.
UINTMAX_MAX == Pow2(2 * Width) - 1
\* Unsigned arithmetic of sieve_num: every result is taken mod 2^Width.
Wrap(x) == x % Pow2(Width)

\* ------------------------------------------------------------- floats
\* A non-negative float is held as an integer count of 2^-FracBits.
MantBits == HalfWidth + (HalfWidth \div 2)
FracBits == Width
Scale == Pow2(FracBits)

RECURSIVE BitLen(_)
BitLen(q) == IF q = 0 THEN 0 ELSE 1 + BitLen(q \div 2)

\* Round-to-nearest, ties-to-even, to MantBits significant bits.
FloatRound(q) ==
    IF BitLen(q) <= MantBits THEN q
    ELSE LET ulp  == Pow2(BitLen(q) - MantBits)
             lo   == (q \div ulp) * ulp
             rem  == q - lo
         IN  IF 2 * rem > ulp \/ (2 * rem = ulp /\ (q \div ulp) % 2 = 1)
             THEN lo + ulp
             ELSE lo

\* (float)MaxPrime
IntToFloat(n) == FloatRound(n * Scale)

RECURSIVE ISqrtBits(_, _, _)
ISqrtBits(v, r, bit) ==
    IF bit = 0 THEN r
    ELSE IF (r + bit) * (r + bit) <= v THEN ISqrtBits(v, r + bit, bit \div 2)
    ELSE ISqrtBits(v, r, bit \div 2)
\* floor(sqrt(v)), found bit by bit from the highest
ISqrt(v) == ISqrtBits(v, 0, Pow2(BitLen(v) \div 2))

\* sqrtf: the float nearest to the exact square root (IEEE: correctly rounded).
Sqrtf(q) ==
    IF q = 0 THEN 0
    ELSE LET s    == ISqrt(q * Scale)        \* floor of the root, in 2^-FracBits
             ulp  == IF BitLen(s) <= MantBits THEN 1
                     ELSE Pow2(BitLen(s) - MantBits)
             lo   == (s \div ulp) * ulp
             \* the root is above the midpoint lo + ulp/2 iff (2lo+ulp)^2 < 4 q Scale
             up   == (2 * lo + ulp) * (2 * lo + ulp) < 4 * q * Scale
         IN  IF lo * lo = q * Scale THEN lo
             ELSE IF ulp = 1 THEN (IF up THEN lo + 1 ELSE lo)
             ELSE IF up THEN lo + ulp ELSE lo

\* The bias 1e-5f, which lies between 2^-17 and 2^-16: here 2^-(HalfWidth+1).
Bias == Scale \div Pow2(HalfWidth + 1)

\* a + b in float arithmetic
FloatAdd(a, b) == FloatRound(a + b)

\* (sieve_num) x: truncation towards zero.
FloatToSieveNum(q) == Wrap(q \div Scale)

\* sieve.c:138  (sieve_num)(sqrtf((float)MaxPrime) + 1e-5f)
SqrtLimit(n) == FloatToSieveNum(FloatAdd(Sqrtf(IntToFloat(n)), Bias))

\* ------------------------------------------------------- command line
\* An argument of the command line: an option ("-q": k = "opt", c = "q"), a
\* decimal number (k = "num", v its value: "-1" is Num(-1)) or any other text.
Opt(c) == [k |-> "opt", c |-> c, v |-> 0]
Num(v) == [k |-> "num", c |-> "", v |-> v]
Word(s) == [k |-> "word", c |-> s, v |-> 0]

VARIABLES
    argv,              \* Args[1..NumberOfArgs-1]
    SIEVE_FAST,        \* the build: TRUE when compiled with -DSIEVE_FAST
    DefaultThreads,    \* the team size OpenMP uses when -n is not given
    pc,                \* where main is
    errno,
    ShouldPrintPrimes, ShouldPrintTime, PrimesPerLine, Separator, MaxPrime,
    NumThreads,        \* the team size set by omp_set_num_threads
    IsComposite,       \* the table: <<>> until calloc has returned it
    MaxPrimeSqrt,
    thr,               \* the team of the current parallel region
    Number,            \* main's loop variable (SIEVE_FAST outer loop, PrintPrimes)
    PrimeInLine,
    out,               \* standard output: <<Number, separator>>, or <<-1, text>>
    err                \* the error stream

vars == <<argv, SIEVE_FAST, DefaultThreads, pc, errno, ShouldPrintPrimes,
          ShouldPrintTime, PrimesPerLine, Separator, MaxPrime, NumThreads,
          IsComposite, MaxPrimeSqrt, thr, Number, PrimeInLine, out, err>>

\* strtoumax(Str, NULL, 10): the value of the leading digits; past UINTMAX_MAX it
\* is UINTMAX_MAX with errno = ERANGE. With no digits it is 0, and the C library
\* may (einval) or may not set errno = EINVAL.
Strtoumax(Str, e, einval) ==
    IF Str.k = "num" /\ Str.v >= 0
    THEN IF Str.v > UINTMAX_MAX THEN [Val |-> UINTMAX_MAX, errno |-> "ERANGE"]
         ELSE [Val |-> Str.v, errno |-> e]
    ELSE [Val |-> 0, errno |-> IF einval THEN "EINVAL" ELSE e]

\* sieve.c:201  StringToUMax
StringToUMax(Str, MaxVal, e, einval) ==
    LET r == Strtoumax(Str, e, einval)
    IN  IF r.Val > MaxVal THEN [Val |-> MaxVal, errno |-> "ERANGE"] ELSE r

\* atoi(optarg)
Atoi(Str) == IF Str.k = "num" THEN Str.v ELSE 0

\* The globals ParseArguments works on, as they are when main starts.
Globals0 ==
    [ShouldPrintPrimes |-> TRUE, ShouldPrintTime |-> FALSE, PrimesPerLine |-> 10,
     Separator |-> "\t", MaxPrime |-> 0, NumThreads |-> 0, errno |-> "0",
     err |-> <<>>, optind |-> 1, ret |-> "run"]

Fail(g, msgs) == [g EXCEPT !.ret = "false", !.err = @ \o msgs]

\* sieve.c:230  case 'n'
OptionNAlt(g, optarg) ==
    IF Atoi(optarg) < 0
    THEN Fail(g, <<"The number of threads must be greater or equal to 1">>)
    ELSE [g EXCEPT !.NumThreads = Atoi(optarg)]
OptionN(g, optarg) ==
    IF Atoi(optarg) < 1
    THEN Fail(g, <<"The number of threads must be greater or equal to 1">>)
    ELSE [g EXCEPT !.NumThreads = Atoi(optarg)]

\* sieve.c:240  case 'l'
OptionL(g, optarg, einval) ==
    LET r == StringToUMax(optarg, MAX_U32, g.errno, einval)
    IN  [g EXCEPT !.PrimesPerLine = r.Val % Pow2(Width),
                  !.errno = r.errno,
                  !.err = IF r.errno = "ERANGE"
                          THEN Append(@, "-l option needs a positive integer value")
                          ELSE @]

\* sieve.c:216  the while loop over getopt(NumberOfArgs, Args, "qtn:l:s:h"), from
\* argument i on. getopt stops (-1) at the first argument that is no option (no
\* command line of this model has an option after it, so GNU getopt's reordering
\* of Args moves nothing); an unknown option, and an option without its value,
\* make it print and return '?'.
RECURSIVE ParseOptions(_, _, _, _)
ParseOptions(Args, i, g, einval) ==
    IF i > Len(Args) \/ Args[i].k # "opt" THEN [g EXCEPT !.optind = i]
    ELSE LET c == Args[i].c IN
         IF c = "q" THEN ParseOptions(Args, i + 1, [g EXCEPT !.ShouldPrintPrimes = FALSE], einval)
         ELSE IF c = "t" THEN ParseOptions(Args, i + 1, [g EXCEPT !.ShouldPrintTime = TRUE], einval)
         ELSE IF c = "h" THEN Fail(g, <<>>)
         ELSE IF c \in {"n", "l", "s"}
         THEN IF i + 1 > Len(Args)
              THEN Fail(g, <<"option requires an argument">>)
              ELSE LET optarg == Args[i + 1]
                       g1 == IF c = "n" THEN OptionN(g, optarg)
                             ELSE IF c = "l" THEN OptionL(g, optarg, einval)
                             ELSE [g EXCEPT !.Separator = optarg.c]
                   IN  IF g1.ret = "false" THEN g1
                       ELSE ParseOptions(Args, i + 2, g1, einval)
         ELSE Fail(g, <<"invalid option">>)

\* sieve.c:271  the MAX argument
ParseMaxAlt(Args, g, einval) ==
    IF g.optind <= Len(Args)
    THEN LET r  == StringToUMax(Args[g.optind], MAX_SIEVE, g.errno, einval)
             mp == r.Val % Pow2(Width)
         IN  IF r.errno = "EINVAL" THEN [g EXCEPT !.ret = "crash", !.errno = r.errno]
             ELSE IF r.errno = "ERANGE" \/ mp = MAX_SIEVE
             THEN Fail([g EXCEPT !.MaxPrime = mp, !.errno = r.errno],
                       <<"is higher than we can handle">>)
             ELSE [g EXCEPT !.MaxPrime = mp, !.errno = r.errno, !.ret = "true"]
    ELSE Fail(g, <<"Missing MAX value at the end of command">>)
ParseMax(Args, g, einval) ==
    IF g.optind <= Len(Args)
    THEN LET r  == StringToUMax(Args[g.optind], MAX_SIEVE, g.errno, einval)
             mp == r.Val % Pow2(Width)       \* the (sieve_num) cast
         IN  IF r.errno = "EINVAL"
             THEN [g EXCEPT !.MaxPrime = mp, !.errno = r.errno, !.ret = "crash"]  \* *((b8*)0) = 0
             ELSE IF r.errno = "ERANGE" \/ mp = MAX_SIEVE
             THEN [g EXCEPT !.MaxPrime = MAX_SIEVE - 1, !.errno = r.errno,
                            !.ret = "true",
                            !.err = Append(@, "is higher than we can handle")]
             ELSE [g EXCEPT !.MaxPrime = mp, !.errno = r.errno, !.ret = "true"]
    ELSE Fail(g, <<"Missing MAX value at the end of command">>)

\* sieve.c:211  ParseArguments
ParseArguments(Args, einval) ==
    LET g == ParseOptions(Args, 1, Globals0, einval)
    IN  IF g.ret = "false" THEN g ELSE ParseMax(Args, g, einval)

\* ------------------------------------------------------------- main
TypeOK == pc \in {"start", "alloc", "sieve", "outer", "region", "sieved", "print",
                  "exit_success", "exit_failure", "crashed"}

\* sieve.c:116  main calls ParseArguments; on failure it shows the usage and exits.
ParseArgs ==
    /\ pc = "start"
    /\ \E einval \in BOOLEAN :
         LET g == ParseArguments(argv, einval) IN
         /\ ShouldPrintPrimes' = g.ShouldPrintPrimes
         /\ ShouldPrintTime' = g.ShouldPrintTime
         /\ PrimesPerLine' = g.PrimesPerLine
         /\ Separator' = g.Separator
         /\ MaxPrime' = g.MaxPrime
         /\ NumThreads' = IF g.NumThreads = 0 THEN DefaultThreads ELSE g.NumThreads
         /\ errno' = g.errno
         /\ err' = IF g.ret = "false" THEN Append(g.err, "USAGE") ELSE g.err
         /\ pc' = IF g.ret = "true" THEN "alloc"
                  ELSE IF g.ret = "false" THEN "exit_failure" ELSE "crashed"
    /\ UNCHANGED <<argv, SIEVE_FAST, DefaultThreads, IsComposite, MaxPrimeSqrt,
                   thr, Number, PrimeInLine, out>>

\* sieve.c:129  calloc fails: errno = ENOMEM, the message, EXIT_FAILURE.
AllocFailAlt ==
    /\ pc = "alloc"
    /\ errno' = "ENOMEM"
    /\ err' = Append(err, "Problem allocating memory")
    /\ pc' = "sieved"
    /\ UNCHANGED <<argv, SIEVE_FAST, DefaultThreads, ShouldPrintPrimes,
                   ShouldPrintTime, PrimesPerLine, Separator, MaxPrime, NumThreads,
                   IsComposite, MaxPrimeSqrt, thr, Number, PrimeInLine, out>>
AllocFail ==
    /\ pc = "alloc"
    /\ errno' = "ENOMEM"
    /\ err' = Append(err, "Problem allocating memory")
    /\ pc' = "exit_failure"
    /\ UNCHANGED <<argv, SIEVE_FAST, DefaultThreads, ShouldPrintPrimes,
                   ShouldPrintTime, PrimesPerLine, Separator, MaxPrime, NumThreads,
                   IsComposite, MaxPrimeSqrt, thr, Number, PrimeInLine, out>>

\* schedule(static) without a chunk size: n iterations over T threads, thread t
\* takes ChunkSize(n, T, t) consecutive iterations from ChunkStart(n, T, t) on.
ChunkSize(n, T, t) == (n \div T) + (IF t < n % T THEN 1 ELSE 0)
ChunkStartAlt(n, T, t) == t * (n \div T)
ChunkStart(n, T, t) == t * (n \div T) + (IF t < n % T THEN t ELSE n % T)

\* sieve.c:157-159  the team of the outer loop: Number = 2 .. MaxPrimeSqrt
OuterTeamAlt(limit, T) ==
    LET n == limit
    IN  [t \in 0..(T - 1) |->
           [pc |-> IF ChunkSize(n, T, t) = 0 THEN "done" ELSE "test",
            Number |-> 1 + ChunkStart(n, T, t),
            End |-> 1 + ChunkStart(n, T, t) + ChunkSize(n, T, t),
            Composite |-> 0]]
OuterTeam(limit, T) ==
    LET n == IF limit >= 2 THEN limit - 1 ELSE 0
    IN  [t \in 0..(T - 1) |->
           [pc |-> IF ChunkSize(n, T, t) = 0 THEN "done" ELSE "test",
            Number |-> 2 + ChunkStart(n, T, t),
            End |-> 2 + ChunkStart(n, T, t) + ChunkSize(n, T, t),
            Composite |-> 0]]

\* sieve.c:126  sieve_num ElementsToAllocate = MaxPrime + 1
ElementsToAllocateAlt(n) == Wrap(n)
ElementsToAllocate(n) == Wrap(n + 1)

\* sieve.c:126-138,157  calloc returns the zeroed table of MaxPrime + 1 cells (the
\* check "errno == ENOMEM" passes), MaxPrimeSqrt is computed and the sieve starts:
\* the default build forks the team of the outer loop.
AllocOk ==
    /\ pc = "alloc"
    /\ errno # "ENOMEM"
    /\ IsComposite' = [i \in 0..(ElementsToAllocate(MaxPrime) - 1) |-> FALSE]
    /\ MaxPrimeSqrt' = SqrtLimit(MaxPrime)
    /\ IF SIEVE_FAST
       THEN /\ pc' = "outer"
            /\ Number' = 2
            /\ thr' = thr
       ELSE /\ pc' = "sieve"
            /\ thr' = OuterTeam(SqrtLimit(MaxPrime), NumThreads)
            /\ Number' = Number
    /\ UNCHANGED <<argv, SIEVE_FAST, DefaultThreads, errno, ShouldPrintPrimes,
                   ShouldPrintTime, PrimesPerLine, Separator, MaxPrime, NumThreads,
                   PrimeInLine, out, err>>

\* ------------------------------------------- the sieve, default build
\* A read of table cell i: a cell outside the table holds anything.
Cell(i) == IF i \in DOMAIN IsComposite THEN {IsComposite[i]} ELSE BOOLEAN

\* sieve.c:166  IsComposite[Composite] = true
MarkCellAlt(tab, i) == [tab EXCEPT ![i] = ~tab[i]]
MarkCell(tab, i) == [tab EXCEPT ![i] = TRUE]

\* A thread of the outer loop goes on to its next Number, or is done.
NextNumber(w) ==
    IF w.Number + 1 >= w.End
    THEN [w EXCEPT !.pc = "done", !.Number = w.Number + 1]
    ELSE [w EXCEPT !.pc = "test", !.Number = w.Number + 1]

\* sieve.c:164  Composite = Number * Number
FirstComposite(n) == Wrap(n * n)

\* sieve.c:160,164  a thread of the team tests IsComposite[Number]; when the cell
\* is clear it enters the marking loop at Number * Number, unless that is already
\* past MaxPrime.
ThreadTest(t) ==
    /\ pc = "sieve"
    /\ thr[t].pc = "test"
    /\ \E c \in Cell(thr[t].Number) :
         thr' = [thr EXCEPT ![t] =
                   IF c \/ FirstComposite(thr[t].Number) > MaxPrime
                   THEN NextNumber(thr[t])
                   ELSE [thr[t] EXCEPT !.pc = "mark",
                                       !.Composite = FirstComposite(thr[t].Number)]]
    /\ UNCHANGED <<argv, SIEVE_FAST, DefaultThreads, pc, errno, ShouldPrintPrimes,
                   ShouldPrintTime, PrimesPerLine, Separator, MaxPrime, NumThreads,
                   IsComposite, MaxPrimeSqrt, Number, PrimeInLine, out, err>>

\* sieve.c:164-167  one turn of the marking loop: IsComposite[Composite] = true,
\* Composite += Number (in sieve_num), and the loop is left once Composite is
\* past MaxPrime.
ThreadMark(t) ==
    /\ pc = "sieve"
    /\ thr[t].pc = "mark"
    /\ IsComposite' = MarkCell(IsComposite, thr[t].Composite)
    /\ LET c == Wrap(thr[t].Composite + thr[t].Number)
       IN  thr' = [thr EXCEPT ![t] =
                     IF c <= MaxPrime THEN [thr[t] EXCEPT !.Composite = c]
                     ELSE NextNumber([thr[t] EXCEPT !.Composite = c])]
    /\ UNCHANGED <<argv, SIEVE_FAST, DefaultThreads, pc, errno, ShouldPrintPrimes,
                   ShouldPrintTime, PrimesPerLine, Separator, MaxPrime, NumThreads,
                   MaxPrimeSqrt, Number, PrimeInLine, out, err>>

\* The barrier that ends a parallel region: every thread of the team is done.
TeamDoneAlt == \E t \in DOMAIN thr : thr[t].pc = "done"
TeamDone == \A t \in DOMAIN thr : thr[t].pc = "done"

\* sieve.c:169  the join of the outer loop's region
Join ==
    /\ pc = "sieve"
    /\ TeamDone
    /\ pc' = "sieved"
    /\ UNCHANGED <<argv, SIEVE_FAST, DefaultThreads, errno, ShouldPrintPrimes,
                   ShouldPrintTime, PrimesPerLine, Separator, MaxPrime, NumThreads,
                   IsComposite, MaxPrimeSqrt, thr, Number, PrimeInLine, out, err>>

\* ---------------------------------------------- the sieve, SIEVE_FAST
\* sieve.c:162-165  the team of the marking loop of Number: OpenMP counts the
\* turns of "Composite = Number*Number; Composite <= MaxPrime; Composite += Number"
\* before the loop starts and hands each thread its share of them.
InnerTeam(n, T) ==
    LET lb    == FirstComposite(n)
        turns == IF lb <= MaxPrime THEN ((MaxPrime - lb) \div n) + 1 ELSE 0
    IN  [t \in 0..(T - 1) |->
           [pc |-> IF ChunkSize(turns, T, t) = 0 THEN "done" ELSE "mark",
            Number |-> n,
            End |-> lb + (ChunkStart(turns, T, t) + ChunkSize(turns, T, t)) * n,
            Composite |-> lb + ChunkStart(turns, T, t) * n]]

\* sieve.c:159-162  the sequential outer loop: past MaxPrimeSqrt the sieve is
\* over; a marked Number is skipped; a clear one forks the team of its marking loop.
OuterTest ==
    /\ pc = "outer"
    /\ IF Number > MaxPrimeSqrt
       THEN /\ pc' = "sieved"
            /\ UNCHANGED <<Number, thr>>
       ELSE \E c \in Cell(Number) :
              IF c
              THEN /\ Number' = Wrap(Number + 1)
                   /\ UNCHANGED <<pc, thr>>
              ELSE /\ thr' = InnerTeam(Number, NumThreads)
                   /\ pc' = "region"
                   /\ Number' = Number
    /\ UNCHANGED <<argv, SIEVE_FAST, DefaultThreads, errno, ShouldPrintPrimes,
                   ShouldPrintTime, PrimesPerLine, Separator, MaxPrime, NumThreads,
                   IsComposite, MaxPrimeSqrt, PrimeInLine, out, err>>

\* sieve.c:164-167  a thread of the marking team marks one of its cells
WorkerMark(t) ==
    /\ pc = "region"
    /\ thr[t].pc = "mark"
    /\ IsComposite' = MarkCell(IsComposite, thr[t].Composite)
    /\ thr' = [thr EXCEPT ![t] =
                 IF thr[t].Composite + thr[t].Number >= thr[t].End
                 THEN [thr[t] EXCEPT !.pc = "done", !.Composite = @ + thr[t].Number]
                 ELSE [thr[t] EXCEPT !.Composite = @ + thr[t].Number]]
    /\ UNCHANGED <<argv, SIEVE_FAST, DefaultThreads, pc, errno, ShouldPrintPrimes,
                   ShouldPrintTime, PrimesPerLine, Separator, MaxPrime, NumThreads,
                   MaxPrimeSqrt, Number, PrimeInLine, out, err>>

\* sieve.c:167-169  the join of a marking region; the outer loop goes on
RegionJoinAlt ==
    /\ pc = "region"
    /\ pc' = "outer"
    /\ Number' = Wrap(Number + 1)
    /\ UNCHANGED <<argv, SIEVE_FAST, DefaultThreads, errno, ShouldPrintPrimes,
                   ShouldPrintTime, PrimesPerLine, Separator, MaxPrime, NumThreads,
                   IsComposite, MaxPrimeSqrt, thr, PrimeInLine, out, err>>
RegionJoin ==
    /\ pc = "region"
    /\ TeamDone
    /\ pc' = "outer"
    /\ Number' = Wrap(Number + 1)
    /\ UNCHANGED <<argv, SIEVE_FAST, DefaultThreads, errno, ShouldPrintPrimes,
                   ShouldPrintTime, PrimesPerLine, Separator, MaxPrime, NumThreads,
                   IsComposite, MaxPrimeSqrt, thr, PrimeInLine, out, err>>

\* ------------------------------------------------------------ output
\* sieve.c:172-182  the timer line, then PrintPrimes or the end of main
AfterSieve ==
    /\ pc = "sieved"
    /\ out' = IF ShouldPrintTime THEN Append(out, <<-1, "Sieve took\n">>) ELSE out
    /\ IF ShouldPrintPrimes
       THEN pc' = "print" /\ Number' = 2 /\ PrimeInLine' = 0
       ELSE pc' = "exit_success" /\ UNCHANGED <<Number, PrimeInLine>>
    /\ UNCHANGED <<argv, SIEVE_FAST, DefaultThreads, errno, ShouldPrintPrimes,
                   ShouldPrintTime, PrimesPerLine, Separator, MaxPrime, NumThreads,
                   IsComposite, MaxPrimeSqrt, thr, err>>

\* sieve.c:187-193  one turn of PrintPrimes' loop. A line width of 0 divides by 0.
PrintStep ==
    /\ pc = "print"
    /\ Number <= MaxPrime
    /\ \E c \in Cell(Number) :
         IF c
         THEN /\ Number' = Wrap(Number + 1)
              /\ UNCHANGED <<pc, PrimeInLine, out>>
         ELSE IF PrimesPerLine = 0
         THEN /\ pc' = "crashed"
              /\ UNCHANGED <<Number, PrimeInLine, out>>
         ELSE /\ PrimeInLine' = (PrimeInLine + 1) % PrimesPerLine
              /\ out' = Append(out, <<Number, IF (PrimeInLine + 1) % PrimesPerLine = 0
                                              THEN "\n" ELSE Separator>>)
              /\ Number' = Wrap(Number + 1)
              /\ pc' = pc
    /\ UNCHANGED <<argv, SIEVE_FAST, DefaultThreads, errno, ShouldPrintPrimes,
                   ShouldPrintTime, PrimesPerLine, Separator, MaxPrime, NumThreads,
                   IsComposite, MaxPrimeSqrt, thr, err>>

\* sieve.c:195-198,182  the closing newline of a partial line; EXIT_SUCCESS
PrintEnd ==
    /\ pc = "print"
    /\ Number > MaxPrime
    /\ out' = IF PrimeInLine > 0 THEN Append(out, <<-1, "\n">>) ELSE out
    /\ pc' = "exit_success"
    /\ UNCHANGED <<argv, SIEVE_FAST, DefaultThreads, errno, ShouldPrintPrimes,
                   ShouldPrintTime, PrimesPerLine, Separator, MaxPrime, NumThreads,
                   IsComposite, MaxPrimeSqrt, thr, Number, PrimeInLine, err>>

\* ----------------------------------------------------- specifications
Threads == 0..(MaxThreads + 1)

Next ==
    \/ ParseArgs
    \/ AllocFail
    \/ AllocOk
    \/ \E t \in Threads : t \in DOMAIN thr /\ ThreadTest(t)
    \/ \E t \in Threads : t \in DOMAIN thr /\ ThreadMark(t)
    \/ Join
    \/ OuterTest
    \/ \E t \in Threads : t \in DOMAIN thr /\ WorkerMark(t)
    \/ RegionJoin
    \/ AfterSieve
    \/ PrintStep
    \/ PrintEnd

\* The state main starts in, for command line a: the globals of sieve.c:104-108.
Start(a) ==
    /\ argv = a
    /\ SIEVE_FAST \in BOOLEAN
    /\ pc = "start"
    /\ errno = "0"
    /\ ShouldPrintPrimes = TRUE
    /\ ShouldPrintTime = FALSE
    /\ PrimesPerLine = 10
    /\ Separator = "\t"
    /\ MaxPrime = 0
    /\ NumThreads = 0
    /\ IsComposite = <<>>
    /\ MaxPrimeSqrt = 0
    /\ thr = <<>>
    /\ Number = 0
    /\ PrimeInLine = 0
    /\ out = <<>>
    /\ err = <<>>

\* Command lines "MAX" for every bound up to one past MAX_SIEVE, run on every
\* team size, a few command lines main rejects, and one that sets the layout of
\* the output.
SieveLines ==
    {<<Num(n)>> : n \in 0..(MAX_SIEVE + 1)}
    \cup {<<>>, <<Opt("n"), Num(0), Num(5)>>, <<Opt("q"), Opt("t"), Num(30)>>,
          <<Word("abc")>>, <<Opt("l"), Num(5), Opt("s"), Word(", "), Num(20)>>}

Init ==
    /\ DefaultThreads \in 1..MaxThreads
    /\ \E a \in SieveLines : Start(a)

Spec == Init /\ [][Next]_vars

\* Command lines of up to MaxOpts options followed by MAX, well formed or not,
\* run by one thread.
OptionUnits ==
    {<<Opt("q")>>, <<Opt("t")>>, <<Opt("h")>>, <<Opt("x")>>,
     <<Opt("n"), Num(-1)>>, <<Opt("n"), Num(0)>>, <<Opt("n"), Num(1)>>,
     <<Opt("n"), Word("abc")>>,
     <<Opt("l"), Num(0)>>, <<Opt("l"), Num(3)>>, <<Opt("l"), Num(MAX_U32 + 1)>>,
     <<Opt("l"), Word("abc")>>, <<Opt("s"), Word(", ")>>}
MaxParts ==
    {<<>>, <<Opt("n")>>, <<Word("abc")>>, <<Num(0)>>, <<Num(9)>>,
     <<Num(MAX_SIEVE)>>, <<Num(MAX_SIEVE + 1)>>, <<Num(UINTMAX_MAX + 1)>>}
RECURSIVE OptionPrefixes(_)
OptionPrefixes(k) ==
    IF k = 0 THEN {<<>>}
    ELSE OptionPrefixes(k - 1)
         \cup {p \o u : p \in OptionPrefixes(k - 1), u \in OptionUnits}
ArgLines == {p \o m : p \in OptionPrefixes(MaxOpts), m \in MaxParts}

InitArgs ==
    /\ DefaultThreads = 1
    /\ \E a \in ArgLines : Start(a)

SpecArgs == InitArgs /\ [][Next]_vars

\* Every bound, run by a team of one thread. With a single thread of control the
\* program never pauses: a step that is possible is taken.
InitOne ==
    /\ DefaultThreads = 1
    /\ \E a \in SieveLines : Start(a)
FairSpec == InitOne /\ [][Next]_vars /\ WF_vars(Next)

\* ------------------------------------------------------------ claims
IsPrime(i) == i >= 2 /\ \A d \in 2..(i - 1) : i % d # 0

\* The sieve loop has finished: main is past the last join.
SieveFinished == pc \in {"sieved", "print", "exit_success"}

\* C1: when the sieve loop has finished, under either build, any team size and
\* any interleaving, IsComposite[i] is false exactly when i is prime, for
\* every i in 2..MaxPrime.
C1_SievePostcondition ==
    SieveFinished =>
        \A i \in 2..MaxPrime : (IsComposite[i] = FALSE) <=> IsPrime(i)

\* C2 (as claimed): once the sieve has started it ends: every marking loop is
\* left and the last join is passed.
C2_SieveTerminates == (pc \in {"sieve", "outer", "region"}) ~> (pc = "sieved")

\* The table the SIEVE_FAST build ends with on bound n: the outer loop taken in
\* order, the marking loop of every clear Number done in full (OpenMP's count of
\* its turns) before the next Number is tested.
RECURSIVE SieveFastRun(_, _, _)
SieveFastRun(tab, p, n) ==
    IF p > SqrtLimit(n) THEN tab
    ELSE IF tab[p] THEN SieveFastRun(tab, p + 1, n)
    ELSE SieveFastRun([i \in DOMAIN tab |->
                         tab[i] \/ (/\ i >= FirstComposite(p)
                                    /\ (i - FirstComposite(p)) % p = 0)],
                      p + 1, n)
SieveFastTable(n) == SieveFastRun([i \in 0..n |-> FALSE], 2, n)

\* C3 (as claimed): on every bound, a finished sieve of either build has left the
\* table the SIEVE_FAST (inner-parallel) build leaves on that bound: the default
\* (outer-parallel) build and the SIEVE_FAST build end with identical tables.
C3_StrategiesEquivalent ==
    SieveFinished => IsComposite = SieveFastTable(MaxPrime)

\* The table one thread ends with on bound n: sieve.c:159-168 run in order, the
\* marking loop in sieve_num arithmetic. A marking loop that is still running
\* after more turns than the table has cells never ends: there is no table (<<>>).
RECURSIVE OneThreadMark(_, _, _, _, _)
OneThreadMark(tab, c, p, n, fuel) ==
    IF c > n THEN tab
    ELSE IF fuel = 0 THEN <<>>
    ELSE OneThreadMark([tab EXCEPT ![c] = TRUE], Wrap(c + p), p, n, fuel - 1)
RECURSIVE OneThreadRun(_, _, _)
OneThreadRun(tab, p, n) ==
    IF tab = <<>> \/ p > SqrtLimit(n) THEN tab
    ELSE IF tab[p] THEN OneThreadRun(tab, p + 1, n)
    ELSE OneThreadRun(OneThreadMark(tab, FirstComposite(p), p, n, n + 1), p + 1, n)
OneThreadTable(n) == OneThreadRun([i \in 0..n |-> FALSE], 2, n)

\* C4: the table a finished sieve leaves is the one a single thread leaves on the
\* same bound, whatever the team size and the interleaving of the reads of
\* IsComposite[Number] with the writes IsComposite[Composite] = true.
C4_TableFunctionOfBound ==
    SieveFinished =>
        IsComposite = IF SIEVE_FAST THEN SieveFastTable(MaxPrime)
                      ELSE OneThreadTable(MaxPrime)

\* C5: PrintPrimes runs, and a prime is on standard output, only when every thread
\* of every parallel region has finished its marking loop and the outer loop is
\* over; without a table (calloc failed) nothing is printed.
C5_NoPartialTable ==
    /\ (pc = "print" \/ \E k \in DOMAIN out : out[k][1] >= 0) =>
          /\ \A t \in DOMAIN thr : thr[t].pc = "done"
          /\ SIEVE_FAST => IsComposite = SieveFastTable(MaxPrime)
    /\ IsComposite = <<>> => out = <<>>
    /\ (\E k \in DOMAIN err : err[k] = "Problem allocating memory") =>
          IsComposite = <<>> /\ pc = "exit_failure"

\* PrintPrimes is at work after a sieve run by a team of several threads.
C5_Witness ==
    /\ pc = "print"
    /\ NumThreads > 1
    /\ MaxPrimeSqrt >= 4
    /\ \E k \in DOMAIN out : out[k][1] >= 0

\* floor(sqrt(n)), by its definition
FloorSqrt(n) == CHOOSE r \in 0..n : r * r <= n /\ (r + 1) * (r + 1) > n

\* C6 (as claimed): MaxPrimeSqrt is floor(sqrt(MaxPrime)) for every accepted bound;
\* for a perfect square k*k it is k.
C6_LimitIsFloorSqrt ==
    IsComposite # <<>> => MaxPrimeSqrt = FloorSqrt(MaxPrime)

\* C7: on a bound below 2 no thread enters the loop body, no cell of the table is
\* written and no index is printed, whatever the team size.
C7_BoundBelowTwo ==
    (pc # "start" /\ MaxPrime < 2) =>
        /\ \A t \in DOMAIN thr : thr[t].pc = "done"
        /\ pc # "region"
        /\ \A i \in DOMAIN IsComposite : ~IsComposite[i]
        /\ \A k \in DOMAIN out : out[k][1] < 0

\* The program has ended on bound 1, printing enabled, the team of several threads.
C7_Witness ==
    /\ pc = "exit_success"
    /\ MaxPrime = 1
    /\ DOMAIN IsComposite = {0, 1}
    /\ NumThreads > 1
    /\ ShouldPrintPrimes

\* The command line as the usage text reads it: options first, -n, -l and -s
\* each followed by a value, then MAX. OptionPlaces is the set of places of the
\* options, OperandPlace the place where MAX is expected.
RECURSIVE OptionPlacesFrom(_, _)
OptionPlacesFrom(Args, i) ==
    IF i > Len(Args) \/ Args[i].k # "opt" THEN {}
    ELSE {i} \cup OptionPlacesFrom(Args, IF Args[i].c \in {"n", "l", "s"}
                                              THEN i + 2 ELSE i + 1)
OptionPlaces(Args) == OptionPlacesFrom(Args, 1)
RECURSIVE OperandPlaceFrom(_, _)
OperandPlaceFrom(Args, i) ==
    IF i > Len(Args) \/ Args[i].k # "opt" THEN i
    ELSE OperandPlaceFrom(Args, IF Args[i].c \in {"n", "l", "s"} THEN i + 2 ELSE i + 1)
OperandPlace(Args) == OperandPlaceFrom(Args, 1)

\* Every option is one main accepts: known, with its value, -n at least 1.
OptionsAccepted(Args) ==
    \A i \in OptionPlaces(Args) :
        /\ Args[i].c \in {"q", "t", "n", "l", "s"}
        /\ Args[i].c \in {"n", "l", "s"} => i + 1 <= Len(Args)
        /\ Args[i].c = "n" => Args[i + 1].k = "num" /\ Args[i + 1].v >= 1

Reported(msg) == \E k \in DOMAIN err : err[k] = msg

\* C8: when the options are accepted and MAX is a number above MAX_SIEVE, the
\* bound is MAX_SIEVE - 1, the warning is on the error stream, and main goes on to
\* allocate and sieve a table of that bound: it does not show the usage, and it
\* exits with failure only if the allocation fails.
C8_OverRangeClamped ==
    (/\ pc # "start"
     /\ OptionsAccepted(argv)
     /\ OperandPlace(argv) <= Len(argv)
     /\ argv[OperandPlace(argv)].k = "num"
     /\ argv[OperandPlace(argv)].v > MAX_SIEVE) =>
        /\ MaxPrime = MAX_SIEVE - 1
        /\ Reported("is higher than we can handle")
        /\ ~Reported("USAGE")
        /\ pc = "exit_failure" => Reported("Problem allocating memory")
        /\ IsComposite # <<>> => DOMAIN IsComposite = 0..(MAX_SIEVE - 1)

\* The sieve is under way on the clamped bound after an over-range MAX that
\* followed an accepted option.
C8_Witness ==
    /\ pc \in {"sieve", "region"}
    /\ Len(argv) > 1
    /\ argv[Len(argv)].k = "num"
    /\ argv[Len(argv)].v > MAX_SIEVE
    /\ MaxPrime = MAX_SIEVE - 1
    /\ DOMAIN IsComposite = 0..(MAX_SIEVE - 1)

\* MAX is missing or is no decimal number, or an option is unknown or lacks its
\* value.
BadCommandLine(Args) ==
    \/ OperandPlace(Args) > Len(Args)
    \/ Args[OperandPlace(Args)].k # "num"
    \/ \E i \in OptionPlaces(Args) :
          \/ Args[i].c \notin {"q", "t", "n", "l", "s", "h"}
          \/ Args[i].c \in {"n", "l", "s"} /\ i + 1 > Len(Args)

\* C9 (as claimed): such a command line ends in a report on the error stream and
\* EXIT_FAILURE, with no table allocated and no sieve step taken.
C9_BadCommandLineRejected ==
    (pc # "start" /\ BadCommandLine(argv)) =>
        /\ pc = "exit_failure"
        /\ err # <<>>
        /\ IsComposite = <<>>
        /\ thr = <<>>

\* An option -n whose value is below 1 (or no number, which atoi reads as 0).
BadThreadHint(Args) ==
    \E i \in OptionPlaces(Args) :
        /\ Args[i].c = "n"
        /\ i + 1 <= Len(Args)
        /\ (Args[i + 1].k = "num" => Args[i + 1].v < 1)

\* C10: a command line with a thread-count hint below 1 ends in EXIT_FAILURE before
\* the table is allocated or a sieve step is taken, and the team size is the
\* default or the value of an accepted -n, never the rejected value.
C10_BadThreadHintRejected ==
    (pc # "start" /\ BadThreadHint(argv)) =>
        /\ pc = "exit_failure"
        /\ Reported("USAGE")
        /\ NumThreads \in {DefaultThreads}
                          \cup {argv[i + 1].v : i \in {j \in OptionPlaces(argv) :
                                                         /\ argv[j].c = "n"
                                                         /\ j + 1 <= Len(argv)
                                                         /\ argv[j + 1].k = "num"
                                                         /\ argv[j + 1].v >= 1}}
        /\ IsComposite = <<>>
        /\ thr = <<>>

\* A hint below 1 that came after an accepted option was rejected with its message.
C10_Witness ==
    /\ pc = "exit_failure"
    /\ Len(argv) >= 4
    /\ argv[1] = Opt("t")
    /\ argv[2] = Opt("n")
    /\ argv[3] = Num(0)
    /\ Reported("The number of threads must be greater or equal to 1")

\* C11: when calloc has failed the failure is on the error stream and main has
\* returned EXIT_FAILURE: no limit was computed, no team was forked, no loop
\* variable was started, there is no table to read or write, and standard output
\* is empty.
C11_AllocFailureExits ==
    Reported("Problem allocating memory") =>
        /\ pc = "exit_failure"
        /\ errno = "ENOMEM"
        /\ IsComposite = <<>>
        /\ thr = <<>>
        /\ MaxPrimeSqrt = 0
        /\ Number = 0
        /\ PrimeInLine = 0
        /\ out = <<>>

\* calloc has failed on the largest table, with the timer line and the primes
\* both asked for.
C11_Witness ==
    /\ pc = "exit_failure"
    /\ Reported("Problem allocating memory")
    /\ MaxPrime = MAX_SIEVE - 1
    /\ ShouldPrintPrimes
    /\ ~Reported("USAGE")

\* Standard output as text: the pieces printed, in order (a number and the string
\* after it for a printf of PrintPrimes, the string alone for any other).
RECURSIVE Text(_)
Text(o) ==
    IF o = <<>> THEN <<>>
    ELSE (IF Head(o)[1] >= 0 THEN <<Head(o)[1], Head(o)[2]>> ELSE <<Head(o)[2]>>)
         \o Text(Tail(o))

\* The unmarked indices from..MaxPrime laid out as the claim has it: the k-th one is
\* followed by a newline when it is the L-th of its line or the last of all, and
\* by the separator otherwise.
RECURSIVE Layout(_, _, _)
Layout(from, k, last) ==
    IF from > MaxPrime THEN <<>>
    ELSE IF IsComposite[from] THEN Layout(from + 1, k, last)
    ELSE <<from, IF k % PrimesPerLine = 0 \/ from = last THEN "\n" ELSE Separator>>
         \o Layout(from + 1, k + 1, last)
Unmarked == {i \in 2..MaxPrime : ~IsComposite[i]}
LastUnmarked == CHOOSE i \in Unmarked : \A j \in Unmarked : j <= i
TimerLine == IF ShouldPrintTime THEN <<"Sieve took\n">> ELSE <<>>

\* C12 (as claimed): when PrintPrimes has returned, with a line width above 0,
\* standard output is the unmarked indices 2..MaxPrime in ascending order, L to a
\* line, separated by the separator, each line, the partial last one too, ended by
\* a newline directly after its last entry. For "-l 5 -s ', ' 20" it is the lines
\* "2, 3, 5, 7, 11" and "13, 17, 19".
C12_OutputLayout ==
    (pc = "exit_success" /\ ShouldPrintPrimes /\ PrimesPerLine > 0) =>
        /\ Text(out) = TimerLine \o (IF Unmarked = {} THEN <<>>
                                     ELSE Layout(2, 1, LastUnmarked))
        /\ argv = <<Opt("l"), Num(5), Opt("s"), Word(", "), Num(20)>> =>
              Text(out) = <<2, ", ", 3, ", ", 5, ", ", 7, ", ", 11, "\n",
                            13, ", ", 17, ", ", 19, "\n">>

\* C13 (as claimed): in the default build, while the team of the outer loop is at
\* work, no thread is about to read IsComposite[Number] (sieve.c:160) while another
\* thread is about to write that same cell (sieve.c:166): the two accesses, which
\* nothing orders before the join, never meet on a cell.
C13_NoReadWriteRace ==
    pc = "sieve" =>
        \A t, u \in DOMAIN thr :
            ~(/\ t # u
              /\ thr[t].pc = "test"
              /\ thr[u].pc = "mark"
              /\ thr[u].Composite = thr[t].Number)

\* The marking loop of q has been run in full: every multiple of q from q*q up to
\* MaxPrime is marked.
Marked(q) == \A m \in (q * q)..MaxPrime : m % q = 0 => IsComposite[m]

\* C14: in the SIEVE_FAST build the outer loop tests a candidate only with the
\* last marking team joined and the marking loops of all smaller primes run in
\* full, and a marking team is forked only for a candidate that is prime.
C14_InnerStrategyOrder ==
    (SIEVE_FAST /\ pc \in {"outer", "region"}) =>
        /\ pc = "outer" => \A t \in DOMAIN thr : thr[t].pc = "done"
        /\ \A q \in 2..(Number - 1) : IsPrime(q) => Marked(q)
        /\ pc = "region" =>
              /\ IsPrime(Number)
              /\ Number <= MaxPrimeSqrt
              /\ \A t \in DOMAIN thr : thr[t].Number = Number

\* A team of several threads is marking the multiples of 5: the composite
\* candidate 4 was tested before and forked no team.
C14_Witness ==
    /\ SIEVE_FAST
    /\ pc = "region"
    /\ Number = 5
    /\ NumThreads > 1
    /\ \E t \in DOMAIN thr : thr[t].pc = "mark"

\* C15 (as claimed): in every state, under either build, a cell of the table is
\* true only at a composite index: cells 0 and 1 and the cells of the primes are
\* never written.
C15_OnlyCompositesMarked ==
    \A i \in DOMAIN IsComposite :
        IsComposite[i] => (i >= 2 /\ ~IsPrime(i))

\* C16: calloc hands out a table of false cells, and from then on every step
\* leaves the table its cells and leaves every true cell true: the one write of
\* the program stores true, so a write that comes twice, in any order with the
\* others, changes nothing more.
C16_CellsMonotone ==
    [][/\ (IsComposite = <<>> /\ IsComposite' # <<>>) =>
             \A i \in DOMAIN IsComposite' : ~IsComposite'[i]
       /\ IsComposite # <<>> =>
             /\ DOMAIN IsComposite' = DOMAIN IsComposite
             /\ \A i \in DOMAIN IsComposite : IsComposite[i] => IsComposite'[i]]_vars

\* A thread is about to write a cell that another marking loop has already set.
C16_Witness ==
    /\ pc \in {"sieve", "region"}
    /\ \E t \in DOMAIN thr :
          /\ thr[t].pc = "mark"
          /\ thr[t].Composite \in DOMAIN IsComposite
          /\ IsComposite[thr[t].Composite]

\* The cells the marking loop of p is to write: p*p, p*p + p, ... up to MaxPrime.
Multiples(p) == {m \in (p * p)..MaxPrime : m % p = 0}
\* The cells thread t of the marking team has still to write.
Pending(t) ==
    IF thr[t].pc = "mark"
    THEN {c \in thr[t].Composite..(thr[t].End - 1) :
             (c - thr[t].Composite) % thr[t].Number = 0}
    ELSE {}

\* C17: in the SIEVE_FAST build, from the fork of the marking team of Number to
\* its join, no cell is in the share of two threads, the threads write multiples
\* of Number from Number*Number up to MaxPrime only, and every such multiple is
\* either written or still in the share of a thread: when all threads are done,
\* all of them are written.
C17_InnerPartition ==
    (SIEVE_FAST /\ pc = "region") =>
        /\ \A t, u \in DOMAIN thr : t # u => Pending(t) \cap Pending(u) = {}
        /\ \A t \in DOMAIN thr : Pending(t) \subseteq Multiples(Number)
        /\ \A m \in Multiples(Number) :
              IsComposite[m] \/ \E t \in DOMAIN thr : m \in Pending(t)

\* The largest team has just been forked on a prime with unequal shares: every
\* thread has cells to write and none of them is written yet.
C17_Witness ==
    /\ SIEVE_FAST
    /\ pc = "region"
    /\ Number = 5
    /\ Cardinality(DOMAIN thr) = MaxThreads
    /\ \A t \in DOMAIN thr : Pending(t) # {}
    /\ \A m \in Multiples(Number) : m % 2 # 0 /\ m % 3 # 0 => ~IsComposite[m]
    /\ Cardinality(Multiples(Number)) % MaxThreads # 0

\* C18: the table has the cells 0..MaxPrime, and every access that is about to
\* happen is to one of them: the test IsComposite[Number] of either sieve loop and
\* of PrintPrimes, and the write IsComposite[Composite] of either marking loop.
C18_IndicesInRange ==
    IsComposite # <<>> =>
        /\ DOMAIN IsComposite = 0..MaxPrime
        /\ MaxPrime <= MAX_SIEVE - 1
        /\ pc \in {"sieve", "region"} =>
              \A t \in DOMAIN thr :
                  /\ thr[t].pc = "test" => thr[t].Number \in 0..MaxPrime
                  /\ thr[t].pc = "mark" => thr[t].Composite \in 0..MaxPrime
        /\ (pc = "outer" /\ Number <= MaxPrimeSqrt) => Number \in 0..MaxPrime
        /\ (pc = "print" /\ Number <= MaxPrime) => Number \in 0..MaxPrime

\* On the largest accepted bound a marking loop of the default build has wrapped
\* and is about to write a cell below its Number.
C18_Witness ==
    /\ ~SIEVE_FAST
    /\ pc = "sieve"
    /\ MaxPrime = MAX_SIEVE - 1
    /\ \E t \in DOMAIN thr :
          /\ thr[t].pc = "mark"
          /\ thr[t].Composite < thr[t].Number

\* C19 (as claimed): when the options are accepted and MAX is a number below
\* MAX_SIEVE, ParseArguments returns with MaxPrime = MAX and without the warning of
\* the clamp, whatever the options were.
C19_InRangeMaxUnchanged ==
    (/\ pc # "start"
     /\ OptionsAccepted(argv)
     /\ OperandPlace(argv) <= Len(argv)
     /\ argv[OperandPlace(argv)].k = "num"
     /\ argv[OperandPlace(argv)].v \in 0..(MAX_SIEVE - 1)) =>
        /\ MaxPrime = argv[OperandPlace(argv)].v
        /\ ~Reported("is higher than we can handle")

\* C20 (as claimed): whatever -l value ParseArguments accepted, PrintPrimes never
\* comes to an unmarked Number with PrimesPerLine = 0, the divisor of
\* (PrimeInLine + 1) % PrimesPerLine, and the output stage ends without fault.
C20_NoZeroDivisor ==
    /\ (pc = "print" /\ Number <= MaxPrime /\ ~IsComposite[Number]) =>
          PrimesPerLine # 0
    /\ IsComposite # <<>> => pc # "crashed"
====
